---- MODULE Spec2Model ----
(***************************************************************************)
(* A model of the near-earth-objects database: the record constructors of  *)
(* models.py, the loaders of extract.py and the NEODatabase of database.py *)
(* (constructor, the two lookups, and the query generator).                *)
(*                                                                         *)
(* A Python str is a sequence of one-character strings, so that strip()    *)
(* and upper() are computed.  Objects are named by their position in the   *)
(* collection that holds them: an NEO is an index into neos, a close       *)
(* approach an index into approaches.                                      *)
(***************************************************************************)
EXTENDS Integers, Sequences, FiniteSets, TLC

VARIABLES
    phase,          \* "raw": records not yet linked; "linked": NEODatabase built
    neos,           \* self._neos: the NearEarthObject records
    approaches,     \* self._approaches: the CloseApproach records
    pdes_to_neos,   \* self._pdes_to_neos: dict, stripped designation -> NEO
    name_to_neos,   \* self._name_to_neos: dict, stripped upper-case name -> NEO
    ret,            \* the outcome of the latest lookup call
    gen,            \* the generator object of the latest query() call
    prev,           \* what the previous traversal with the same filters yielded
    csvRows,        \* the data rows of the CSV file, below its header row
    jsonData,       \* the 'data' array of the JSON file
    loadedNeos,     \* what load_neos returned
    loadedApproaches \* what load_approaches returned

dbVars == <<neos, approaches, pdes_to_neos, name_to_neos>>
loadVars == <<csvRows, jsonData, loadedNeos, loadedApproaches>>
vars == <<phase, neos, approaches, pdes_to_neos, name_to_neos, ret, gen, prev,
          csvRows, jsonData, loadedNeos, loadedApproaches>>

----------------------------------------------------------------------------
(* Bounds of the model. *)

MaxNeos == 2
MaxApproaches == 2
MaxFilters == 2
MaxRows == 2

----------------------------------------------------------------------------
(* Python values. *)

\* The None singleton: a one-element tuple that is no str (no str of the
\* model holds the character "None").
None == <<"None">>

\* A CloseApproach's neo before linking (None), as an NEO index.
NoNeo == 0

Whitespace == {" ", "\t", "\n", "\r", "\f"}

LowerAlpha ==
    <<"a","b","c","d","e","f","g","h","i","j","k","l","m",
      "n","o","p","q","r","s","t","u","v","w","x","y","z">>

UpperAlpha ==
    <<"A","B","C","D","E","F","G","H","I","J","K","L","M",
      "N","O","P","Q","R","S","T","U","V","W","X","Y","Z">>

CharUpper(c) ==
    IF \E i \in DOMAIN LowerAlpha : LowerAlpha[i] = c
    THEN UpperAlpha[CHOOSE i \in DOMAIN LowerAlpha : LowerAlpha[i] = c]
    ELSE c

\* str.upper()
Upper(s) == [i \in DOMAIN s |-> CharUpper(s[i])]

RECURSIVE LStrip(_)
LStrip(s) ==
    IF s # <<>> /\ Head(s) \in Whitespace THEN LStrip(Tail(s)) ELSE s

RECURSIVE RStrip(_)
RStrip(s) ==
    IF s # <<>> /\ s[Len(s)] \in Whitespace
    THEN RStrip(SubSeq(s, 1, Len(s) - 1))
    ELSE s

\* str.strip()
Strip(s) == RStrip(LStrip(s))

\* A dict as a function on its keys.
EmptyDict == [k \in {} |-> NoNeo]

DictSet(d, k, v) == [x \in (DOMAIN d) \cup {k} |-> IF x = k THEN v ELSE d[x]]

----------------------------------------------------------------------------
(* models.py: the record constructors. *)

\* NearEarthObject(pdes=..., name=...): an empty name is no name.
NearEarthObject(pdes, name) ==
    [designation |-> pdes,
     name        |-> IF Len(name) = 0 THEN None ELSE name,
     approaches  |-> <<>>]

\* CloseApproach(des=...): the neo reference starts as None.
CloseApproach(des) == [designation |-> des, neo |-> NoNeo]

\* CloseApproach.designation (property)
Designation(appr) == appr.designation

----------------------------------------------------------------------------
(* database.py: NEODatabase.__init__ *)

\* Faulty variant of NameKey: the letter case is kept.
NameKeyNoUpper(name) == Strip(name)

\* The key of a name in _name_to_neos: neo.name.strip().upper()
NameKey(name) == Upper(Strip(name))

\* The first loop: one pass over the NEOs filling both dicts.  d is the pair
\* of dicts after the first i - 1 NEOs.
RECURSIVE IndexNeos(_, _, _)
IndexNeos(ns, i, d) ==
    IF i > Len(ns) THEN d
    ELSE LET neo == ns[i]
             byDes == DictSet(d.pdes, Strip(neo.designation), i)
             byName == IF neo.name # None
                       THEN DictSet(d.name, NameKey(neo.name), i)
                       ELSE d.name
         IN  IndexNeos(ns, i + 1, [pdes |-> byDes, name |-> byName])

\* Faulty variant of LinkMiss: the miss links the approach to the NEO the
\* first loop ended on.
LinkMissLastNeo(s, a) ==
    IF Len(s.neos) = 0 THEN s
    ELSE [neos |-> [s.neos EXCEPT ![Len(s.neos)].approaches = Append(@, a)],
          approaches |-> [s.approaches EXCEPT ![a].neo = Len(s.neos)]]

\* except KeyError: a diagnostic is printed, nothing is linked.
LinkMiss(s, a) == s

\* The body of the second loop for the approach at position a: the try block
\* on a hit, the except KeyError branch (a printed diagnostic) on a miss.
LinkOne(s, a, pdes) ==
    LET key == Designation(s.approaches[a])
    IN  IF key \in DOMAIN pdes
        THEN LET n == pdes[key]
             IN  [neos |-> [s.neos EXCEPT ![n].approaches = Append(@, a)],
                  approaches |-> [s.approaches EXCEPT ![a].neo = n]]
        ELSE LinkMiss(s, a)

RECURSIVE LinkApproaches(_, _, _)
LinkApproaches(s, a, pdes) ==
    IF a > Len(s.approaches) THEN s
    ELSE LinkApproaches(LinkOne(s, a, pdes), a + 1, pdes)

NoCall == [op |-> "", arg |-> <<>>, kind |-> "", neo |-> NoNeo]

NoGen == [status |-> "absent", filters |-> <<>>, pos |-> 1,
          yielded |-> <<>>, evals |-> <<>>, last |-> ""]

\* NEODatabase(neos, approaches)
Construct ==
    /\ phase = "raw"
    /\ LET d == IndexNeos(neos, 1, [pdes |-> EmptyDict, name |-> EmptyDict])
           s == LinkApproaches([neos |-> neos, approaches |-> approaches], 1, d.pdes)
       IN  /\ pdes_to_neos' = d.pdes
           /\ name_to_neos' = d.name
           /\ neos' = s.neos
           /\ approaches' = s.approaches
    /\ phase' = "linked"
    /\ UNCHANGED <<ret, gen, prev, loadVars>>

----------------------------------------------------------------------------
(* database.py: the lookups *)

Found(op, arg, n) == [op |-> op, arg |-> arg, kind |-> "neo", neo |-> n]
NotFound(op, arg) == [op |-> op, arg |-> arg, kind |-> "none", neo |-> NoNeo]
Raised(op, arg) == [op |-> op, arg |-> arg, kind |-> "AttributeError", neo |-> NoNeo]

\* get_neo_by_designation(designation)
GetNeoByDesignationResult(designation) ==
    IF designation = None THEN Raised("designation", designation)
    ELSE LET key == Upper(Strip(designation))
         IN  IF key \in DOMAIN pdes_to_neos
             THEN Found("designation", designation, pdes_to_neos[key])
             ELSE NotFound("designation", designation)

GetNeoByDesignation(designation) ==
    /\ phase = "linked"
    /\ ret' = GetNeoByDesignationResult(designation)
    /\ UNCHANGED <<phase, dbVars, gen, prev, loadVars>>

\* get_neo_by_name(name): name.strip() runs before the None test.
GetNeoByNameResult(name) ==
    IF name = None THEN Raised("name", name)
    ELSE LET key == Upper(Strip(name))
         IN  IF Len(key) > 0
             THEN IF key \in DOMAIN name_to_neos
                  THEN Found("name", name, name_to_neos[key])
                  ELSE NotFound("name", name)
             ELSE NotFound("name", name)

GetNeoByName(name) ==
    /\ phase = "linked"
    /\ ret' = GetNeoByNameResult(name)
    /\ UNCHANGED <<phase, dbVars, gen, prev, loadVars>>

----------------------------------------------------------------------------
(* database.py: NEODatabase.query, a generator. *)

\* A filter is a callable on one approach; the model knows it by what it does
\* on each approach of the collection: "T" (truthy), "F" (falsy), or "X" (it
\* raises).  A filter is a sequence of these, one per approach.
Outcomes == {"T", "F", "X"}

FiltersOver(n) == [1..n -> Outcomes]

FilterSeqs(n) == UNION {[1..k -> FiltersOver(n)] : k \in 0..MaxFilters}

\* Faulty variant of EvalFilters: no break after a filter returned false.
RECURSIVE EvalFiltersNoBreak(_, _, _, _)
EvalFiltersNoBreak(filters, a, j, evals) ==
    IF j > Len(filters) THEN [match |-> "T", evals |-> evals]
    ELSE LET o == filters[j][a]
             ev == Append(evals, <<a, j>>)
         IN  IF o = "X" THEN [match |-> "X", evals |-> ev]
             ELSE LET rest == EvalFiltersNoBreak(filters, a, j + 1, ev)
                  IN  IF o = "F" /\ rest.match = "T"
                      THEN [match |-> "F", evals |-> rest.evals]
                      ELSE rest

\* Faulty variant of EvalFilters: match is what the last filter returned.
RECURSIVE EvalFiltersLastWins(_, _, _, _)
EvalFiltersLastWins(filters, a, j, evals) ==
    IF j > Len(filters) THEN [match |-> "T", evals |-> evals]
    ELSE LET o == filters[j][a]
             ev == Append(evals, <<a, j>>)
         IN  IF o = "X" THEN [match |-> "X", evals |-> ev]
             ELSE IF o = "F" /\ j = Len(filters) THEN [match |-> "F", evals |-> ev]
             ELSE EvalFiltersLastWins(filters, a, j + 1, ev)

\* The inner loop for approach a, from filter j on.  evals logs each call
\* f(approach) as <<a, j>>.
RECURSIVE EvalFilters(_, _, _, _)
EvalFilters(filters, a, j, evals) ==
    IF j > Len(filters) THEN [match |-> "T", evals |-> evals]
    ELSE LET o == filters[j][a]
             ev == Append(evals, <<a, j>>)
         IN  IF o = "X" THEN [match |-> "X", evals |-> ev]
             ELSE IF o = "F" THEN [match |-> "F", evals |-> ev]
             ELSE EvalFilters(filters, a, j + 1, ev)

\* A filter raised: the exception leaves the generator, which is finished
\* from then on.  pos counts the approach as taken from the collection.
OnFault(g, a, evals) ==
    [g EXCEPT !.status = "faulted", !.pos = a + 1, !.evals = evals,
              !.last = "raise"]

\* yield approach
OnMatch(g, a, evals) ==
    [g EXCEPT !.pos = a + 1, !.evals = evals, !.last = "yield",
              !.yielded = Append(@, a)]

\* Faulty variant of Resume: a raising filter counts as one returning false.
RECURSIVE ResumeSwallowing(_, _, _)
ResumeSwallowing(g, a, evals) ==
    IF a > Len(approaches)
    THEN [g EXCEPT !.status = "done", !.pos = a, !.evals = evals, !.last = "stop"]
    ELSE LET r == EvalFilters(g.filters, a, 1, evals)
         IN  IF r.match = "T" THEN OnMatch(g, a, r.evals)
             ELSE ResumeSwallowing(g, a + 1, r.evals)

\* One next() on a running generator: the outer loop from approach a up to
\* the next yield, the end of the collection, or a raising filter.
RECURSIVE Resume(_, _, _)
Resume(g, a, evals) ==
    IF a > Len(approaches)
    THEN [g EXCEPT !.status = "done", !.pos = a, !.evals = evals, !.last = "stop"]
    ELSE LET r == EvalFilters(g.filters, a, 1, evals)
         IN  IF r.match = "X" THEN OnFault(g, a, r.evals)
             ELSE IF r.match = "T" THEN OnMatch(g, a, r.evals)
             ELSE Resume(g, a + 1, r.evals)

\* next() on a finished generator raises StopIteration.
GenNext(g) ==
    IF g.status = "active" THEN Resume(g, g.pos, g.evals)
    ELSE [g EXCEPT !.last = "stop"]

NoPrev == [known |-> FALSE, yielded |-> <<>>]

\* query(filters): the call builds the generator; nothing runs before the
\* first next().
Query(filters) ==
    /\ phase = "linked"
    /\ gen' = [status |-> "active", filters |-> filters, pos |-> 1,
               yielded |-> <<>>, evals |-> <<>>, last |-> ""]
    /\ UNCHANGED <<phase, dbVars, ret, loadVars>>

\* query() with the default, empty, filter collection
QueryAll ==
    /\ Query(<<>>)
    /\ prev' = NoPrev

\* query(filters) for any filter collection.  The model follows one generator
\* at a time: this first call, then repeats of it.
QueryFresh ==
    /\ gen.status = "absent"
    /\ \E fs \in FilterSeqs(Len(approaches)) : Query(fs)
    /\ prev' = NoPrev

\* query(filters) once more with the filters of the finished traversal, whose
\* results prev keeps for comparison
QueryAgain ==
    /\ gen.status \in {"done", "faulted"}
    /\ Query(gen.filters)
    /\ prev' = [known |-> TRUE, yielded |-> gen.yielded]

\* Faulty variant of Pull: the traversal consumes the approach collection.
PullConsuming ==
    /\ phase = "linked"
    /\ gen.status # "absent"
    /\ gen' = GenNext(gen)
    /\ approaches' = IF gen.status = "active" /\ approaches # <<>>
                     THEN Tail(approaches) ELSE approaches
    /\ UNCHANGED <<phase, neos, pdes_to_neos, name_to_neos, ret, prev, loadVars>>

\* next(generator)
Pull ==
    /\ phase = "linked"
    /\ gen.status # "absent"
    /\ gen' = GenNext(gen)
    /\ UNCHANGED <<phase, dbVars, ret, prev, loadVars>>

----------------------------------------------------------------------------
(* extract.py: the loaders *)

\* if n > 500: break
ApproachCap == 500

NotLoaded == [status |-> "pending", value |-> <<>>]

\* load_neos: csv.DictReader takes the header row for the field names by
\* itself, so next(reader) consumes the first data row (StopIteration when
\* there is none); every later row becomes a NearEarthObject.
RECURSIVE RowsToNeos(_)
RowsToNeos(rows) ==
    IF rows = <<>> THEN <<>>
    ELSE <<NearEarthObject(Head(rows).pdes, Head(rows).name)>> \o RowsToNeos(Tail(rows))

LoadNeosResult(rows) ==
    IF rows = <<>> THEN [status |-> "StopIteration", value |-> <<>>]
    ELSE [status |-> "returned", value |-> RowsToNeos(Tail(rows))]

LoadNeos ==
    /\ loadedNeos = NotLoaded
    /\ loadedNeos' = LoadNeosResult(csvRows)
    /\ UNCHANGED <<phase, dbVars, ret, gen, prev, csvRows, jsonData, loadedApproaches>>

\* load_approaches: the loop over enumerate(data), n counting from 0.  Pass n
\* appends element n and then breaks when n > 500, so pass n runs exactly when
\* no earlier pass broke.
PassBreaks(n) == n > ApproachCap

PassesRun(data) ==
    {n \in 0..(Len(data) - 1) : \A m \in 0..(n - 1) : ~PassBreaks(m)}

EnumerateData(data) ==
    [i \in 1..Cardinality(PassesRun(data)) |-> CloseApproach(data[i])]

LoadApproachesResult(data) ==
    [status |-> "returned", value |-> EnumerateData(data)]

LoadApproaches ==
    /\ loadedApproaches = NotLoaded
    /\ loadedApproaches' = LoadApproachesResult(jsonData)
    /\ UNCHANGED <<phase, dbVars, ret, gen, prev, csvRows, jsonData, loadedNeos>>

----------------------------------------------------------------------------
(* The inputs the specifications draw from. *)

SeqsUpTo(S, n) == UNION {[1..k -> S] : k \in 0..n}

\* Primary designations as the data files may hold them, and as a caller
\* may type them.
NeoDesignations == {<<"a">>, <<"A">>, <<" ", "A">>, <<"b", " ">>}
ApproachDesignations == {<<"a">>, <<"A">>, <<"A", " ">>, <<"b">>}
DesignationArgs == {<<"a">>, <<" ", "a", " ">>, <<"A">>, <<"b">>, <<"c">>}

\* Names: the CSV field (empty when the NEO has none), and a caller's input.
NeoNames == {<<>>, <<" ">>, <<"a">>, <<"A", " ">>, <<"b">>}
NameArgs == {None, <<>>, <<" ">>, <<"a">>, <<" ", "A">>, <<"B">>, <<"c">>}

\* A designation no other position has: k ones.
Numbered(k) == [j \in 1..k |-> "1"]

NoLoads ==
    /\ csvRows = <<>>
    /\ jsonData = <<>>
    /\ loadedNeos = NotLoaded
    /\ loadedApproaches = NotLoaded

Unbuilt ==
    /\ phase = "raw"
    /\ pdes_to_neos = EmptyDict
    /\ name_to_neos = EmptyDict
    /\ ret = NoCall
    /\ gen = NoGen
    /\ prev = NoPrev

\* Linking and lookup by designation: NEOs and approaches of any designations.
Init ==
    /\ Unbuilt
    /\ NoLoads
    /\ \E ds \in SeqsUpTo(NeoDesignations, MaxNeos) :
          neos = [i \in DOMAIN ds |-> NearEarthObject(ds[i], <<>>)]
    /\ \E ds \in SeqsUpTo(ApproachDesignations, MaxApproaches) :
          approaches = [i \in DOMAIN ds |-> CloseApproach(ds[i])]

Next ==
    \/ Construct
    \/ \E d \in DesignationArgs : GetNeoByDesignation(d)
    \/ QueryAll
    \/ Pull

Spec == Init /\ [][Next]_vars

\* Lookup by name: NEOs of any names, the k-th with designation Numbered(k),
\* and one approach of the first.
InitName ==
    /\ Unbuilt
    /\ NoLoads
    /\ \E ns \in SeqsUpTo(NeoNames, MaxNeos) :
          neos = [i \in DOMAIN ns |-> NearEarthObject(Numbered(i), ns[i])]
    /\ approaches = <<CloseApproach(Numbered(1))>>

NextName ==
    \/ Construct
    \/ \E n \in NameArgs : GetNeoByName(n)

SpecName == InitName /\ [][NextName]_vars

\* Queries: the data set of two NEOs, 433 Eros and the nameless 2020 AK3,
\* with approaches by 433 (odd positions) and by an unknown 999999 (even).
Eros == NearEarthObject(<<"4", "3", "3">>, <<"E", "r", "o", "s">>)
AK3 == NearEarthObject(<<"2", "0", "2", "0", " ", "A", "K", "3">>, <<>>)
Unknown == <<"9", "9", "9", "9", "9", "9">>

InitQuery ==
    /\ Unbuilt
    /\ NoLoads
    /\ neos = <<Eros, AK3>>
    /\ \E n \in 0..MaxApproaches :
          approaches = [i \in 1..n |->
              CloseApproach(IF i % 2 = 1 THEN Eros.designation ELSE Unknown)]

NextQuery ==
    \/ Construct
    \/ GetNeoByDesignation(<<"4", "3", "3">>)
    \/ GetNeoByName(<<"e", "r", "o", "s">>)
    \/ QueryFresh
    \/ QueryAgain
    \/ Pull

SpecQuery == InitQuery /\ [][NextQuery]_vars

\* The loaders: a CSV file of up to MaxRows data rows, and a JSON file whose
\* 'data' array is short or of a length around the loop's cut-off.
CsvRowSet == [pdes : {<<"a">>, <<"b">>}, name : {<<>>, <<"E">>}]

LongLengths == (ApproachCap + 1)..(ApproachCap + 3)

InitLoad ==
    /\ Unbuilt
    /\ neos = <<>>
    /\ approaches = <<>>
    /\ csvRows \in SeqsUpTo(CsvRowSet, MaxRows)
    /\ \/ jsonData \in SeqsUpTo(ApproachDesignations, MaxRows)
       \/ \E n \in LongLengths : jsonData = [i \in 1..n |-> <<"a">>]
    /\ loadedNeos = NotLoaded
    /\ loadedApproaches = NotLoaded

NextLoad ==
    \/ LoadNeos
    \/ LoadApproaches

SpecLoad == InitLoad /\ [][NextLoad]_vars

----------------------------------------------------------------------------
(* Vocabulary of the properties. *)

Linked == phase = "linked"

\* Equal once surrounding whitespace is trimmed.
TrimEq(x, y) == Strip(x) = Strip(y)

\* Equal once trimmed and with letter case ignored.
CaseTrimEq(x, y) == Upper(Strip(x)) = Upper(Strip(y))

Occurrences(seq, x) == Cardinality({i \in DOMAIN seq : seq[i] = x})

Range(seq) == {seq[i] : i \in DOMAIN seq}

Matched(a) ==
    \E n \in DOMAIN neos : TrimEq(neos[n].designation, approaches[a].designation)

DesignationsUnique ==
    \A m, n \in DOMAIN neos :
        m # n => ~CaseTrimEq(neos[m].designation, neos[n].designation)

Named(n) == neos[n].name # None

\* No two names equal with letter case ignored.
NamesUnique ==
    \A m, n \in DOMAIN neos :
        (m # n /\ Named(m) /\ Named(n)) => Upper(neos[m].name) # Upper(neos[n].name)

\* No two names equal once trimmed and with letter case ignored.
TrimmedNamesUnique ==
    \A m, n \in DOMAIN neos :
        (m # n /\ Named(m) /\ Named(n)) => ~CaseTrimEq(neos[m].name, neos[n].name)

----------------------------------------------------------------------------
(* Linking *)

\* C1: after construction every approach whose trimmed designation equals
\* some NEO's trimmed designation has a neo reference, to an NEO of that
\* designation, and occurs exactly once in that NEO's approaches.
C1_LinkingComplete ==
    Linked =>
        \A a \in DOMAIN approaches :
            Matched(a) =>
                /\ approaches[a].neo # NoNeo
                /\ TrimEq(neos[approaches[a].neo].designation, approaches[a].designation)
                /\ Occurrences(neos[approaches[a].neo].approaches, a) = 1

\* C2: an approach whose designation matches no NEO keeps neo = None, is in
\* no NEO's approaches, and is yielded (once) by a query without filters;
\* construction reaches the linked database all the same.
C2_UnmatchedStaysUnlinked ==
    Linked =>
        \A a \in DOMAIN approaches :
            ~Matched(a) =>
                /\ approaches[a].neo = NoNeo
                /\ \A n \in DOMAIN neos : a \notin Range(neos[n].approaches)
                /\ (gen.status # "absent" /\ gen.filters = <<>> /\ gen.pos > a)
                      => Occurrences(gen.yielded, a) = 1

C2_Witness ==
    /\ Linked
    /\ gen.status = "done"
    /\ gen.filters = <<>>
    /\ \E a, b \in DOMAIN approaches :
          /\ ~Matched(a) /\ a \in Range(gen.yielded)
          /\ Matched(b) /\ approaches[b].neo # NoNeo

----------------------------------------------------------------------------
(* Lookups *)

\* C3: with unique designations, get_neo_by_designation returns the NEO whose
\* designation is the argument up to letter case and surrounding whitespace,
\* and None when there is no such NEO.
C3_DesignationLookup ==
    (ret.op = "designation" /\ DesignationsUnique) =>
        /\ \A n \in DOMAIN neos :
              CaseTrimEq(ret.arg, neos[n].designation)
                  => (ret.kind = "neo" /\ ret.neo = n)
        /\ (\A n \in DOMAIN neos : ~CaseTrimEq(ret.arg, neos[n].designation))
              => ret.kind = "none"

\* C4: get_neo_by_name of the empty string or of None returns None: it does
\* not raise and returns no NEO.
C4_EmptyNameNotFound ==
    (ret.op = "name" /\ ret.arg \in {None, <<>>}) => ret.kind = "none"

\* What C5 says of a lookup by name, for the NEOs that satisfy HasName in a
\* data set whose names are Unique.
NameLookupCorrect(HasName(_), Unique) ==
    /\ (ret.op = "name" /\ ret.arg # None /\ Len(ret.arg) > 0 /\ Unique) =>
          /\ \A n \in DOMAIN neos :
                (Named(n) /\ HasName(n) /\ CaseTrimEq(ret.arg, neos[n].name))
                    => (ret.kind = "neo" /\ ret.neo = n)
          /\ (\A n \in DOMAIN neos : Named(n) => ~CaseTrimEq(ret.arg, neos[n].name))
                => ret.kind = "none"
    /\ Linked =>
          \A k \in DOMAIN name_to_neos : Named(name_to_neos[k])

NonEmptyName(n) == Len(neos[n].name) > 0

NonBlankName(n) == Len(Strip(neos[n].name)) > 0

----------------------------------------------------------------------------
(* Queries *)

AllTrue(fs, a) == \A j \in DOMAIN fs : fs[j][a] = "T"

\* The approaches among the first upto that every filter accepts, in order.
Matching(fs, upto) ==
    LET Accepts(a) == AllTrue(fs, a)
    IN  SelectSeq([i \in 1..upto |-> i], Accepts)

\* Whether evaluating the filters in order on approach a reaches one that
\* raises: all before it return true.
FaultsOn(fs, a) ==
    \E j \in DOMAIN fs : fs[j][a] = "X" /\ \A i \in 1..(j - 1) : fs[i][a] = "T"

\* The first approach a traversal faults on, or 0.
FirstFault(fs) ==
    IF \E a \in DOMAIN approaches : FaultsOn(fs, a)
    THEN CHOOSE a \in DOMAIN approaches :
             FaultsOn(fs, a) /\ \A b \in 1..(a - 1) : ~FaultsOn(fs, b)
    ELSE 0

\* A whole traversal: next() until the generator is finished.
RECURSIVE Drain(_)
Drain(g) == IF g.status = "active" THEN Drain(GenNext(g)) ELSE g

Traversal(fs) ==
    Drain([status |-> "active", filters |-> fs, pos |-> 1,
           yielded |-> <<>>, evals |-> <<>>, last |-> ""])

\* C6: a traversal that runs to its end has yielded exactly the approaches
\* every filter accepts, each once and in storage order; without filters that
\* is every approach; with two filters it is what query([p1]) and query([p2])
\* both yield.
C6_QueryYieldsMatches ==
    gen.status = "done" =>
        /\ gen.yielded = Matching(gen.filters, Len(approaches))
        /\ gen.filters = <<>> => gen.yielded = [i \in DOMAIN approaches |-> i]
        /\ Len(gen.filters) = 2 =>
              LET q1 == Traversal(<<gen.filters[1]>>)
                  q2 == Traversal(<<gen.filters[2]>>)
                  InSecond(a) == a \in Range(q2.yielded)
              IN  (q1.status = "done" /\ q2.status = "done")
                      => gen.yielded = SelectSeq(q1.yielded, InSecond)

C6_Witness ==
    /\ gen.status = "done"
    /\ Len(gen.filters) = 2
    /\ gen.filters[1] # gen.filters[2]
    /\ Len(gen.yielded) = 1
    /\ Len(Traversal(<<gen.filters[1]>>).yielded) = 2
    /\ Traversal(<<gen.filters[2]>>).status = "done"

\* C7: once the database is built no call changes an NEO, an approach, the
\* approach collection or either index, and a traversal repeated with the same
\* filters yields the same approaches in the same order.
C7_ReadOnlyAndRepeatable ==
    /\ [][Linked => UNCHANGED dbVars]_vars
    /\ []((prev.known /\ gen.status \in {"done", "faulted"})
             => gen.yielded = prev.yielded)

C7_Witness ==
    /\ prev.known
    /\ gen.status = "done"
    /\ Len(gen.filters) > 0
    /\ Len(gen.yielded) > 0
    /\ ret.kind = "neo"

\* C8: a filter that raises ends the traversal at the approach it raised on:
\* the generator is finished from the pull that reached that approach, what
\* it yielded is exactly the matching approaches before that one, and the
\* raising call was its last and was made once.
C8_FaultEndsTraversal ==
    LET fa == FirstFault(gen.filters)
    IN  /\ gen.status = "faulted" =>
              /\ fa # 0
              /\ gen.pos = fa + 1
              /\ gen.yielded = Matching(gen.filters, fa - 1)
              /\ gen.evals # <<>>
              /\ gen.evals[Len(gen.evals)][1] = fa
              /\ gen.filters[gen.evals[Len(gen.evals)][2]][fa] = "X"
              /\ Occurrences(gen.evals, gen.evals[Len(gen.evals)]) = 1
        /\ (gen.status # "absent" /\ fa # 0 /\ gen.pos > fa) => gen.status = "faulted"
        /\ gen.last = "raise" => gen.status = "faulted"
        /\ gen.status = "faulted" => gen.last \in {"raise", "stop"}

C8_Witness ==
    /\ gen.status = "faulted"
    /\ gen.last = "stop"
    /\ Len(gen.yielded) > 0
    /\ Len(gen.filters) = 2

\* C9: the filters are called on an approach in collection order, each at
\* most once, and none is called after one that returned false.
C9_ShortCircuit ==
    \A k \in DOMAIN gen.evals :
        LET a == gen.evals[k][1]
            j == gen.evals[k][2]
        IN  /\ \A i \in 1..(k - 1) : gen.evals[i] # gen.evals[k]
            /\ j > 1 => /\ gen.evals[k - 1] = <<a, j - 1>>
                        /\ gen.filters[j - 1][a] = "T"
            /\ (j = 1 /\ k > 1) => gen.evals[k - 1][1] < a

C9_Witness ==
    /\ gen.status = "done"
    /\ Len(gen.filters) = 2
    /\ \E a, b \in DOMAIN approaches :
          /\ gen.filters[1][a] = "F"
          /\ <<a, 1>> \in Range(gen.evals)
          /\ <<a, 2>> \notin Range(gen.evals)
          /\ <<b, 2>> \in Range(gen.evals)

----------------------------------------------------------------------------
(* Loaders *)

\* C10: load_neos returns one NearEarthObject per data row and
\* load_approaches one CloseApproach per element of 'data', in source order.
C10_LoadersComplete ==
    /\ loadedNeos # NotLoaded =>
          /\ loadedNeos.status = "returned"
          /\ Len(loadedNeos.value) = Len(csvRows)
          /\ \A i \in DOMAIN csvRows :
                loadedNeos.value[i] = NearEarthObject(csvRows[i].pdes, csvRows[i].name)
    /\ loadedApproaches # NotLoaded =>
          /\ loadedApproaches.status = "returned"
          /\ Len(loadedApproaches.value) = Len(jsonData)
          /\ \A i \in DOMAIN jsonData :
                loadedApproaches.value[i] = CloseApproach(jsonData[i])

====
